---- MODULE Spec2Model ----
(***************************************************************************)
(* Model of the SBP adoption simulation: the Municipality agents           *)
(* (agents/municipality.py), the Government payment lookup                 *)
(* (agents/government.py) and the SBPAdoption model (model.py): its        *)
(* construction, the two loops of the SimultaneousActivation schedule and  *)
(* the national bookkeeping.                                               *)
(*                                                                         *)
(* Spec runs the model on datasets without gaps; SpecLoad is construction  *)
(* alone on datasets with gaps; SpecFeatures and SpecPayments are          *)
(* Municipality._retrieve_data and Government.retrieve_payments called on  *)
(* their own.                                                              *)
(*                                                                         *)
(* Numbers.  The program computes with floats; the model computes with     *)
(* exact rationals <<numerator, denominator>> (denominator > 0, lowest     *)
(* terms), so rounding is not modelled.  NaN and None are the empty tuple. *)
(***************************************************************************)
EXTENDS Integers, Sequences, FiniteSets, TLC

VARIABLES
    data,        \* the datasets and collaborators the run is given (never changed)
    pc,          \* "new", "run", "construct_failed", "aborted"
    year,        \* SBPAdoption._year
    munic,       \* the fields of every Municipality
    model,       \* the adoption fields of SBPAdoption
    nstepped,    \* position of schedule.step() in its first loop (agent.step())
    nadvanced,   \* position of schedule.step() in its second loop (agent.advance())
    last,        \* what the most recent Municipality.step() call did (its locals)
    error,       \* the exception that ended construction or a step, or "none"
    year_start,  \* the ledgers and the clock as they were when the year began
    payq,        \* the most recent direct retrieve_payments query and its answer
    featq,       \* the most recent direct _retrieve_data call and its outcome
    drawn,       \* the municipalities that drew from model.random this year, in order
    nsteps       \* the number of SBPAdoption.step() calls that have returned

vars == <<data, pc, year, munic, model, nstepped, nadvanced, last, error,
          year_start, payq, featq, drawn, nsteps>>

----------------------------------------------------------------------------
(* Bounds and program constants *)

MaxSteps == 2

InitialYear == 1996

FirstAllowedYear == 1996

FirstSeriesYear == 1995

RefYear == 2009

Munics == {"m1", "m2"}

\* the years of which a run of MaxSteps steps reads the datasets
Years == (InitialYear - 1)..(InitialYear + MaxSteps - 1)

HistYears == FirstSeriesYear..(InitialYear - 1)

----------------------------------------------------------------------------
(* Exact arithmetic *)

NaN == <<>>

Abs(n) == IF n < 0 THEN -n ELSE n

RECURSIVE Gcd(_, _)
Gcd(a, b) == IF b = 0 THEN a ELSE Gcd(b, a % b)

Rat(n, d) ==
    LET g == Gcd(Abs(n), Abs(d))
        s == IF d < 0 THEN -1 ELSE 1
    IN  <<(s * n) \div g, (s * d) \div g>>

R(n) == <<n, 1>>

Zero == R(0)

RAdd(a, b) == Rat(a[1] * b[2] + b[1] * a[2], a[2] * b[2])

RSub(a, b) == Rat(a[1] * b[2] - b[1] * a[2], a[2] * b[2])

RMul(a, b) == Rat(a[1] * b[1], a[2] * b[2])

\* numpy float division: a zero divisor gives inf or nan, not an exception
RDiv(a, b) == IF b[1] = 0 THEN NaN ELSE Rat(a[1] * b[2], a[2] * b[1])

RLt(a, b) == a[1] * b[2] < b[1] * a[2]

RLe(a, b) == a[1] * b[2] <= b[1] * a[2]

RECURSIVE SumOver(_, _)
SumOver(f, S) ==
    IF S = {} THEN Zero
    ELSE LET x == CHOOSE y \in S : TRUE
         IN  RAdd(f[x], SumOver(f, S \ {x}))

----------------------------------------------------------------------------
(* Python call binding *)

\* A call binds when it supplies one argument for every required parameter;
\* otherwise Python raises TypeError before the body runs.
CallBinds(params, args) == Len(args) = Len(params)

Ok(v) == [error |-> "none", value |-> v]

Raise(e) == [error |-> e, value |-> NaN]

----------------------------------------------------------------------------
(* agents/government.py *)

\* Government.__init__(self, unique_id, model, sbp_payments, municipalities_pcf)
GovernmentInitParams == <<"unique_id", "model", "sbp_payments", "municipalities_pcf">>

\* Government.retrieve_payments(self, year, munic)
RetrievePaymentsParams == <<"year", "munic">>

\* retrieve_payments looking the year up before the membership test
retrieve_payments_YearFirst(gov, yr, m) ==
    IF yr \notin DOMAIN gov.sbp_payments
    THEN Raise("KeyError")
    ELSE IF m \notin gov.municipalities_pcf
         THEN Ok(Zero)
         ELSE Ok(gov.sbp_payments[yr])

\* The body of retrieve_payments on a Government holding the table
\* sbp_payments and the set municipalities_pcf.
retrieve_payments(gov, yr, m) ==
    IF m \notin gov.municipalities_pcf
    THEN Ok(Zero)
    ELSE IF yr \in DOMAIN gov.sbp_payments
         THEN Ok(gov.sbp_payments[yr])
         ELSE Raise("KeyError")

----------------------------------------------------------------------------
(* The collaborators held by the model *)

\* model.government is an instance of the class the name agents.Government is
\* bound to.  "Government" is the class of agents/government.py.  "YearOnly"
\* stands for a payments collaborator with the interface the call sites of
\* model.py and municipality.py use (three constructor arguments, a lookup by
\* year alone); what it answers is an input of the step, like the outputs of
\* the classifier and of the regressor.
GovernmentClasses == {"Government", "YearOnly"}

InitParamsOf(cls) ==
    IF cls = "Government" THEN GovernmentInitParams
    ELSE <<"unique_id", "model", "sbp_payments">>

LookupParamsOf(cls) ==
    IF cls = "Government" THEN RetrievePaymentsParams ELSE <<"year">>

\* model.py:224   agents.Government(self.next_id(), self, sbp_payments)
InitializeGovernmentArgs == <<"next_id", "self", "sbp_payments">>

_initialize_government(cls) ==
    IF CallBinds(InitParamsOf(cls), InitializeGovernmentArgs)
    THEN Ok(cls)
    ELSE Raise("TypeError")

\* municipality.py:168   self.model.government.retrieve_payments(year)
RetrieveDataPaymentArgs == <<"year">>

\* The outcome of the call of line 168; answer is what a year-only
\* collaborator returns (an amount, or KeyError).
PaymentCall(cls, answer) ==
    IF CallBinds(LookupParamsOf(cls), RetrieveDataPaymentArgs)
    THEN answer
    ELSE Raise("TypeError")

----------------------------------------------------------------------------
(* Municipality._retrieve_data *)

\* features.csv of the two estimators
ml_clsf_feats ==
    <<"tot_cumul_adoption_pr_y_munic", "tot_cumul_adoption_pr_y_port",
      "farmers_over65", "av_d_mean_t_average">>

ml_regr_feats ==
    <<"tot_cumul_adoption_pr_y_munic", "tot_cumul_adoption_pr_y_port",
      "farmers_over65", "sbp_payment", "soil_property">>

Range(s) == {s[i] : i \in DOMAIN s}

\* pd.Series(index=features): every entry NaN
EmptySeries(features) ==
    [index |-> features, val |-> [n \in Range(features) |-> NaN]]

\* attributes[name] = v when name is in the index (lines 155-162)
SetIfPresent(a, name, v) ==
    IF name \in Range(a.index)
    THEN [a EXCEPT !.val = [n \in DOMAIN a.val |-> IF n = name THEN v ELSE a.val[n]]]
    ELSE a

\* attributes[name] = v: pandas sets the entry, appending the label to the
\* index when it is not there (line 167)
SetItem(a, name, v) ==
    IF name \in Range(a.index)
    THEN SetIfPresent(a, name, v)
    ELSE [index |-> Append(a.index, name),
          val |-> [n \in DOMAIN a.val \cup {name} |->
                      IF n = name THEN v ELSE a.val[n]]]

\* Series.update(other): the labels of the index that other has a non-NaN
\* value for take that value; nothing is added
SeriesUpdate(a, other) ==
    [a EXCEPT !.val = [n \in DOMAIN a.val |->
        IF n \in DOMAIN other /\ other[n] # NaN THEN other[n] ELSE a.val[n]]]

\* the list of missing attributes cut to its first entry
MissingAttr_First(a) ==
    LET all == SelectSeq(a.index, LAMBDA n : a.val[n] = NaN)
    IN  IF all = <<>> THEN <<>> ELSE <<all[1]>>

\* attributes[attributes.isnull()].index.tolist(), in index order
MissingAttr(a) == SelectSeq(a.index, LAMBDA n : a.val[n] = NaN)

\* _retrieve_data(features, year, estimator) for a municipality with fields
\* ms in a model with fields mdl; census_row is census_data[year - 1] (a
\* census_data left None cannot be subscripted: TypeError), env the
\* municipality's MunicipalityEnvironment, pay the outcome of the payment call.
\* The result is the assembled series or the exception raised.
_retrieve_data(ms, mdl, features, estimator, census_row, env, pay) ==
    LET a0 == EmptySeries(features)
        a1 == SetIfPresent(a0, "tot_cumul_adoption_pr_y_munic", ms.cumul_adoption_tot)
        a2 == SetIfPresent(a1, "tot_cumul_adoption_pr_y_port", mdl.cumul_adoption_tot_port)
        a3 == SeriesUpdate(a2, census_row)
        a4 == IF estimator = "regr" THEN SetItem(a3, "sbp_payment", pay.value) ELSE a3
        a5 == SeriesUpdate(a4, env.average_climate)
        a6 == SeriesUpdate(a5, env.soil)
    IN  IF ms.census_data = "None"
        THEN [error |-> "TypeError", frame |-> NaN, missing |-> <<>>]
        ELSE IF estimator = "regr" /\ pay.error # "none"
        THEN [error |-> pay.error, frame |-> NaN, missing |-> <<>>]
        ELSE IF MissingAttr(a6) # <<>>
        THEN [error |-> "ValueError", frame |-> NaN, missing |-> MissingAttr(a6)]
        ELSE [error |-> "none", frame |-> a6, missing |-> <<>>]

----------------------------------------------------------------------------
(* agents/municipality.py: step, estimate_adoption, advance *)

\* dict[key] = value
DictSet(d, k, v) == [x \in DOMAIN d \cup {k} |-> IF x = k THEN v ELSE d[x]]

\* Blocked without the test of the previous year's area
Blocked_NoPrevYear(ms, yr) ==
    \/ ms.perm_pastures_ha[yr] = Zero
    \/ RLe(ms.perm_pastures_ha[yr], ms.cumul_adoption_tot_ha)

\* The first two branches of Municipality.step (lines 107-112)
Blocked(ms, yr) ==
    \/ ms.perm_pastures_ha[yr] = Zero
    \/ ms.perm_pastures_ha[yr - 1] = Zero
    \/ RLe(ms.perm_pastures_ha[yr], ms.cumul_adoption_tot_ha)

\* estimate_adoption without the capacity branch
estimate_adoption_NoClamp(ms, yr, prob_adopt, u, adoption) ==
    IF u < prob_adopt
    THEN IF RLt(adoption, Zero)
         THEN [val |-> Zero, branch |-> "Negative"]
         ELSE [val |-> adoption, branch |-> "Unclamped"]
    ELSE [val |-> Zero, branch |-> "NotAdopted"]

\* estimate_adoption clamping to the whole area instead of what is left of it
estimate_adoption_ClampToArea(ms, yr, prob_adopt, u, adoption) ==
    IF u < prob_adopt
    THEN LET adoption_ha == RMul(adoption, ms.perm_pastures_ref)
         IN  IF RLt(adoption, Zero)
             THEN [val |-> Zero, branch |-> "Negative"]
             ELSE IF RLt(ms.perm_pastures_ha[yr],
                         RAdd(ms.cumul_adoption_tot_ha, adoption_ha))
             THEN [val |-> RDiv(ms.perm_pastures_ha[yr], ms.perm_pastures_ref),
                   branch |-> "Clamped"]
             ELSE [val |-> adoption, branch |-> "Unclamped"]
    ELSE [val |-> Zero, branch |-> "NotAdopted"]

\* estimate_adoption adopting on a tie (u <= prob_adopt)
estimate_adoption_TieAdopts(ms, yr, prob_adopt, u, adoption) ==
    IF u <= prob_adopt
    THEN LET adoption_ha == RMul(adoption, ms.perm_pastures_ref)
         IN  IF RLt(adoption, Zero)
             THEN [val |-> Zero, branch |-> "Negative"]
             ELSE IF RLt(ms.perm_pastures_ha[yr],
                         RAdd(ms.cumul_adoption_tot_ha, adoption_ha))
             THEN [val |-> RDiv(RSub(ms.perm_pastures_ha[yr],
                                     ms.cumul_adoption_tot_ha),
                                ms.perm_pastures_ref),
                   branch |-> "Clamped"]
             ELSE [val |-> adoption, branch |-> "Unclamped"]
    ELSE [val |-> Zero, branch |-> "NotAdopted"]

\* estimate_adoption without the test for a negative prediction
estimate_adoption_KeepsNegative(ms, yr, prob_adopt, u, adoption) ==
    IF u < prob_adopt
    THEN LET adoption_ha == RMul(adoption, ms.perm_pastures_ref)
         IN  IF RLt(ms.perm_pastures_ha[yr],
                    RAdd(ms.cumul_adoption_tot_ha, adoption_ha))
             THEN [val |-> RDiv(RSub(ms.perm_pastures_ha[yr],
                                     ms.cumul_adoption_tot_ha),
                                ms.perm_pastures_ref),
                   branch |-> "Clamped"]
             ELSE [val |-> adoption, branch |-> "Unclamped"]
    ELSE [val |-> Zero, branch |-> "NotAdopted"]

\* estimate_adoption testing the capacity on the fractions, not the hectares
estimate_adoption_FractionTest(ms, yr, prob_adopt, u, adoption) ==
    IF u < prob_adopt
    THEN IF RLt(adoption, Zero)
         THEN [val |-> Zero, branch |-> "Negative"]
         ELSE IF RLt(ms.perm_pastures_ha[yr],
                     RAdd(ms.cumul_adoption_tot, adoption))
         THEN [val |-> RDiv(RSub(ms.perm_pastures_ha[yr],
                                 ms.cumul_adoption_tot_ha),
                            ms.perm_pastures_ref),
               branch |-> "Clamped"]
         ELSE [val |-> adoption, branch |-> "Unclamped"]
    ELSE [val |-> Zero, branch |-> "NotAdopted"]

\* estimate_adoption: prob_adopt is predict_proba(input_clsf)[0][1], u the
\* value of model.random.uniform(0, 1), adoption what regressor.predict
\* returns when it is called.  prob_adopt and u are in tenths.
estimate_adoption(ms, yr, prob_adopt, u, adoption) ==
    IF u < prob_adopt
    THEN LET adoption_ha == RMul(adoption, ms.perm_pastures_ref)
         IN  IF RLt(adoption, Zero)
             THEN [val |-> Zero, branch |-> "Negative"]
             ELSE IF RLt(ms.perm_pastures_ha[yr],
                         RAdd(ms.cumul_adoption_tot_ha, adoption_ha))
             THEN [val |-> RDiv(RSub(ms.perm_pastures_ha[yr],
                                     ms.cumul_adoption_tot_ha),
                                ms.perm_pastures_ref),
                   branch |-> "Clamped"]
             ELSE [val |-> adoption, branch |-> "Unclamped"]
    ELSE [val |-> Zero, branch |-> "NotAdopted"]

\* What a call of step() did: the branch taken, the calls made and their
\* arguments and results (the locals of step and estimate_adoption).
NoCall ==
    [munic |-> "", branch |-> "", retrieve_calls |-> 0, payment_calls |-> 0,
     clsf_calls |-> 0, random_draws |-> 0, regr_calls |-> 0,
     prob_adopt |-> -1, u |-> -1, adoption |-> NaN,
     clsf_frame |-> NaN, regr_frame |-> NaN, missing |-> <<>>]

\* step drawing from the random source in the Blocked branches too
step_DrawsWhenBlocked(m, ms, mdl, yr, cls, census_row, env, answer, prob_adopt, u, adoption) ==
    IF Blocked(ms, yr)
    THEN [error |-> "none", val |-> Zero,
          call |-> [NoCall EXCEPT !.munic = m, !.branch = "Blocked",
                                  !.random_draws = 1, !.u = u]]
    ELSE
    LET c == _retrieve_data(ms, mdl, ml_clsf_feats, "clsf", census_row, env, NaN)
        r == _retrieve_data(ms, mdl, ml_regr_feats, "regr", census_row, env,
                            PaymentCall(cls, answer))
        e == estimate_adoption(ms, yr, prob_adopt, u, adoption)
        called == IF e.branch = "NotAdopted" THEN 0 ELSE 1
    IN  IF c.error # "none"
        THEN [error |-> c.error, val |-> NaN,
              call |-> [NoCall EXCEPT !.munic = m, !.branch = "Error",
                                      !.retrieve_calls = 1, !.missing = c.missing]]
        ELSE IF r.error # "none"
        THEN [error |-> r.error, val |-> NaN,
              call |-> [NoCall EXCEPT !.munic = m, !.branch = "Error",
                                      !.retrieve_calls = 2, !.payment_calls = 1,
                                      !.clsf_frame = c.frame, !.missing = r.missing]]
        ELSE [error |-> "none", val |-> e.val,
              call |-> [munic |-> m, branch |-> e.branch,
                        retrieve_calls |-> 2, payment_calls |-> 1,
                        clsf_calls |-> 1, random_draws |-> 1, regr_calls |-> called,
                        prob_adopt |-> prob_adopt, u |-> u,
                        adoption |-> IF called = 1 THEN adoption ELSE NaN,
                        clsf_frame |-> c.frame, regr_frame |-> r.frame,
                        missing |-> <<>>]]

\* step assembling the regression vector only once the gate is passed
step_RegrAfterGate(m, ms, mdl, yr, cls, census_row, env, answer, prob_adopt, u, adoption) ==
    IF Blocked(ms, yr)
    THEN [error |-> "none", val |-> Zero,
          call |-> [NoCall EXCEPT !.munic = m, !.branch = "Blocked"]]
    ELSE
    LET c == _retrieve_data(ms, mdl, ml_clsf_feats, "clsf", census_row, env, NaN)
        r == _retrieve_data(ms, mdl, ml_regr_feats, "regr", census_row, env,
                            PaymentCall(cls, answer))
        e == estimate_adoption(ms, yr, prob_adopt, u, adoption)
    IN  IF c.error # "none"
        THEN [error |-> c.error, val |-> NaN,
              call |-> [NoCall EXCEPT !.munic = m, !.branch = "Error",
                                      !.retrieve_calls = 1, !.missing = c.missing]]
        ELSE IF ~(u < prob_adopt)
        THEN [error |-> "none", val |-> Zero,
              call |-> [NoCall EXCEPT !.munic = m, !.branch = "NotAdopted",
                                      !.retrieve_calls = 1, !.clsf_calls = 1,
                                      !.random_draws = 1, !.prob_adopt = prob_adopt,
                                      !.u = u, !.clsf_frame = c.frame]]
        ELSE IF r.error # "none"
        THEN [error |-> r.error, val |-> NaN,
              call |-> [NoCall EXCEPT !.munic = m, !.branch = "Error",
                                      !.retrieve_calls = 2, !.payment_calls = 1,
                                      !.clsf_calls = 1, !.random_draws = 1,
                                      !.prob_adopt = prob_adopt, !.u = u,
                                      !.clsf_frame = c.frame, !.missing = r.missing]]
        ELSE [error |-> "none", val |-> e.val,
              call |-> [munic |-> m, branch |-> e.branch,
                        retrieve_calls |-> 2, payment_calls |-> 1,
                        clsf_calls |-> 1, random_draws |-> 1, regr_calls |-> 1,
                        prob_adopt |-> prob_adopt, u |-> u, adoption |-> adoption,
                        clsf_frame |-> c.frame, regr_frame |-> r.frame,
                        missing |-> <<>>]]

\* Municipality.step for municipality m with fields ms.  The result holds the
\* exception raised ("none" when the call returns), the value assigned to
\* _adoption_in_year and the record of the call.
step(m, ms, mdl, yr, cls, census_row, env, answer, prob_adopt, u, adoption) ==
    IF Blocked(ms, yr)
    THEN [error |-> "none", val |-> Zero,
          call |-> [NoCall EXCEPT !.munic = m, !.branch = "Blocked"]]
    ELSE
    LET c == _retrieve_data(ms, mdl, ml_clsf_feats, "clsf", census_row, env, NaN)
        r == _retrieve_data(ms, mdl, ml_regr_feats, "regr", census_row, env,
                            PaymentCall(cls, answer))
        e == estimate_adoption(ms, yr, prob_adopt, u, adoption)
        called == IF e.branch = "NotAdopted" THEN 0 ELSE 1
    IN  IF c.error # "none"
        THEN [error |-> c.error, val |-> NaN,
              call |-> [NoCall EXCEPT !.munic = m, !.branch = "Error",
                                      !.retrieve_calls = 1, !.missing = c.missing]]
        ELSE IF r.error # "none"
        THEN [error |-> r.error, val |-> NaN,
              call |-> [NoCall EXCEPT !.munic = m, !.branch = "Error",
                                      !.retrieve_calls = 2, !.payment_calls = 1,
                                      !.clsf_frame = c.frame, !.missing = r.missing]]
        ELSE [error |-> "none", val |-> e.val,
              call |-> [munic |-> m, branch |-> e.branch,
                        retrieve_calls |-> 2, payment_calls |-> 1,
                        clsf_calls |-> 1, random_draws |-> 1, regr_calls |-> called,
                        prob_adopt |-> prob_adopt, u |-> u,
                        adoption |-> IF called = 1 THEN adoption ELSE NaN,
                        clsf_frame |-> c.frame, regr_frame |-> r.frame,
                        missing |-> <<>>]]

\* the scratch assignment also adding the value to the cumulative fraction
SetAdoptionInYear_Commits(ms, val) ==
    [ms EXCEPT !.adoption_in_year = val,
               !.cumul_adoption_tot = RAdd(@, val)]

\* The assignment of step / estimate_adoption to self._adoption_in_year
SetAdoptionInYear(ms, val) == [ms EXCEPT !.adoption_in_year = val]

\* advance adding the fraction, not its hectares, to the cumulative hectares
advance_HaUnscaled(ms, yr) ==
    LET ha == RMul(ms.adoption_in_year, ms.perm_pastures_ref)
    IN  [ms EXCEPT
            !.yearly_adoption = DictSet(@, yr, ms.adoption_in_year),
            !.yearly_adoption_ha = DictSet(@, yr, ha),
            !.cumul_adoption_tot = RAdd(@, ms.adoption_in_year),
            !.cumul_adoption_tot_ha = RAdd(@, ms.adoption_in_year)]

\* Municipality.advance, lines 229-236: the municipality's own fields
advance(ms, yr) ==
    LET ha == RMul(ms.adoption_in_year, ms.perm_pastures_ref)
    IN  [ms EXCEPT
            !.yearly_adoption = DictSet(@, yr, ms.adoption_in_year),
            !.yearly_adoption_ha = DictSet(@, yr, ha),
            !.cumul_adoption_tot = RAdd(@, ms.adoption_in_year),
            !.cumul_adoption_tot_ha = RAdd(@, ha)]

\* line 238 assigning the municipality's hectares instead of adding them
AdvancePort_Assigns(mdl, ms_after, yr) ==
    [mdl EXCEPT !.adoption_in_year_port_ha = ms_after.yearly_adoption_ha[yr]]

\* Municipality.advance, line 238: the hectares added to the model's total of
\* the year; ms_after holds the fields as advance left them
AdvancePort(mdl, ms_after, yr) ==
    [mdl EXCEPT !.adoption_in_year_port_ha = RAdd(@, ms_after.yearly_adoption_ha[yr])]

\* schedule.step(), second loop, run over the agents in the given order: the
\* municipalities and the model as the advance() calls leave them
RECURSIVE CommitAll(_, _, _, _)
CommitAll(order, ms, mdl, yr) ==
    IF order = <<>>
    THEN [munic |-> ms, model |-> mdl]
    ELSE LET m     == Head(order)
             after == advance(ms[m], yr)
         IN  CommitAll(Tail(order), [ms EXCEPT ![m] = after],
                       AdvancePort(mdl, after, yr), yr)

----------------------------------------------------------------------------
(* model.py: construction *)

\* municipalities_data[data_is_null.any(axis=1)].index.tolist(): the frame
\* gpd.read_file returns has a RangeIndex, so the labels are row numbers
munic_with_nan(d) == {i \in DOMAIN d.order : d.order[i] \in d.table_null}

\* ', '.join(labels): str.join raises TypeError on an item that is not a str
StrJoin(labels) ==
    IF \A l \in labels : l \notin Int THEN Ok(labels) ELSE Raise("TypeError")

\* lines 250-256: the exception the null check of the municipalities table
\* ends with, or "none"
NullCheck(d) ==
    IF d.table_null = {} THEN "none"
    ELSE IF StrJoin(munic_with_nan(d)).error # "none"
         THEN StrJoin(munic_with_nan(d)).error
         ELSE "ValueError"

\* A loop that does  try: row = table.loc[name]  except KeyError: print(...)
\* and then uses row: in the iteration of municipality m the local variable
\* holds the row of the latest municipality up to m, in order, that has one
\* ("" when it is still unbound).
RowHolder(order, m, present) ==
    LET i   == CHOOSE k \in DOMAIN order : order[k] = m
        has == {j \in 1..i : order[j] \in present}
    IN  IF has = {} THEN ""
        ELSE order[CHOOSE j \in has : \A k \in has : k <= j]

\* a use of a local variable no iteration has bound yet
Unbound(d, table) == \E m \in Munics : RowHolder(d.order, m, d.rows[table]) = ""

\* _set_munic_attributes_from_data_and_adoption_in_port, lines 314-316 and
\* 323-355: the fields of municipality m from the census, pastures and
\* adoption datasets (the rows of census_data are read by step, where the row
\* is an input)
MunicFromData(d, m) ==
    LET ha  == d.pastures[m]
        ref == ha[RefYear]
        row == d.adoption[RowHolder(d.order, m, d.rows.adoption)]
        ya  == [y \in {c \in DOMAIN row : c < d.initial_year} |-> row[y]]
        tot == SumOver(ya, DOMAIN ya)
    IN  [census_data |-> IF m \in d.rows.census THEN "dict" ELSE "None",
         perm_pastures_ha |-> ha,
         perm_pastures_ref |-> ref,
         yearly_adoption |-> ya,
         yearly_adoption_ha |-> [y \in DOMAIN ya |-> RMul(ya[y], ref)],
         cumul_adoption_tot |-> tot,
         cumul_adoption_tot_ha |-> RMul(tot, ref),
         adoption_in_year |-> NaN]

\* _initialize_environments, lines 390-407: mappings.environments[m]
EnvironmentFromData(d, m) ==
    [average_climate |-> d.climate[RowHolder(d.order, m, d.rows.climate)],
     soil |-> d.soil[RowHolder(d.order, m, d.rows.soil)]]

\* lines 318-321 and 353-363, and line 122: the model's own adoption fields
ModelFromData(ms, first_year) ==
    LET series == [y \in FirstSeriesYear..(first_year - 1) |->
                      SumOver([m \in Munics |-> ms[m].yearly_adoption_ha[y]], Munics)]
        ref    == SumOver([m \in Munics |-> ms[m].perm_pastures_ref], Munics)
        cumul  == SumOver(series, DOMAIN series)
    IN  [perm_pastures_ref_port |-> ref,
         yearly_adoption_ha_port |-> series,
         cumul_adoption_tot_ha_port |-> cumul,
         cumul_adoption_tot_port |-> RDiv(cumul, ref),
         adoption_in_year_port_ha |-> Zero,
         environments |-> <<>>]

\* the adoption ledger of a municipality: every field but the scratch value
Ledger(ms) ==
    [yearly_adoption |-> ms.yearly_adoption,
     yearly_adoption_ha |-> ms.yearly_adoption_ha,
     cumul_adoption_tot |-> ms.cumul_adoption_tot,
     cumul_adoption_tot_ha |-> ms.cumul_adoption_tot_ha]

\* the ledgers, the model's adoption fields and the clock as a year begins
Committed(ms, mdl, yr) ==
    [munic |-> [m \in Munics |-> Ledger(ms[m])], model |-> mdl, year |-> yr]

\* __init__ without the check of the start year
InitError_NoYearCheck(d) ==
    IF _initialize_government(d.government).error # "none"
    THEN _initialize_government(d.government).error
    ELSE IF NullCheck(d) # "none" THEN NullCheck(d)
    ELSE IF Unbound(d, "adoption") \/ Unbound(d, "climate") \/ Unbound(d, "soil")
    THEN "UnboundLocalError"
    ELSE "none"

\* The exception SBPAdoption.__init__ ends with on the datasets d, or "none":
\* the year check (98-100), the government (110), the null check of the
\* municipalities table (250-256), the loop over the municipalities (323-355)
\* and the loop over the environments (390-407), in this order.
InitError(d) ==
    IF d.initial_year < FirstAllowedYear THEN "ValueError"
    ELSE IF _initialize_government(d.government).error # "none"
    THEN _initialize_government(d.government).error
    ELSE IF NullCheck(d) # "none" THEN NullCheck(d)
    ELSE IF Unbound(d, "adoption") \/ Unbound(d, "climate") \/ Unbound(d, "soil")
    THEN "UnboundLocalError"
    ELSE "none"

\* SBPAdoption.__init__
Construct ==
    /\ pc = "new"
    /\ LET ms  == [m \in Munics |-> MunicFromData(data, m)]
           mdl == ModelFromData(ms, data.initial_year)
           env == [m \in Munics |-> EnvironmentFromData(data, m)]
       IN  IF InitError(data) # "none"
           THEN /\ pc' = "construct_failed"
                /\ error' = InitError(data)
                /\ UNCHANGED <<year, munic, model, year_start>>
           ELSE /\ pc' = "run"
                /\ error' = "none"
                /\ year' = data.initial_year
                /\ munic' = ms
                /\ model' = [mdl EXCEPT !.environments = env]
                /\ year_start' = Committed(ms, model', data.initial_year)
    /\ UNCHANGED <<data, nstepped, nadvanced, last, payq, featq, drawn, nsteps>>

----------------------------------------------------------------------------
(* model.py: step *)

\* _update_adoption_port without the reset of the year's total
_update_adoption_port_NoReset(mdl, yr) ==
    LET cumul == RAdd(mdl.cumul_adoption_tot_ha_port, mdl.adoption_in_year_port_ha)
    IN  [mdl EXCEPT
            !.yearly_adoption_ha_port = DictSet(@, yr, mdl.adoption_in_year_port_ha),
            !.cumul_adoption_tot_ha_port = cumul,
            !.cumul_adoption_tot_port = RDiv(cumul, mdl.perm_pastures_ref_port)]

\* _update_adoption_port, lines 434-440
_update_adoption_port(mdl, yr) ==
    LET cumul == RAdd(mdl.cumul_adoption_tot_ha_port, mdl.adoption_in_year_port_ha)
    IN  [mdl EXCEPT
            !.yearly_adoption_ha_port = DictSet(@, yr, mdl.adoption_in_year_port_ha),
            !.cumul_adoption_tot_ha_port = cumul,
            !.cumul_adoption_tot_port = RDiv(cumul, mdl.perm_pastures_ref_port),
            !.adoption_in_year_port_ha = Zero]

\* the inputs of a step() call
CensusRows == {[farmers_over65 |-> R(1)], [farmers_over65 |-> NaN]}

PaymentAnswers == {Ok(R(150)), Raise("KeyError")}

ProbValues == {4, 10}

UniformValues == {3, 4, 5}

RegrOutputs == {Rat(-1, 2), R(1)}

N == Cardinality(Munics)

\* A call reads its collaborators only on the path it takes: the census row
\* and the payment when it assembles features, the classifier and the random
\* source when both assemblies succeeded, the regressor when the gate was
\* passed.  An input the call does not read is not enumerated.
Consumed(call, census_row, answer, prob_adopt, u, adoption) ==
    /\ call.retrieve_calls = 0 =>
          /\ census_row = CHOOSE c \in CensusRows : c.farmers_over65 # NaN
          /\ answer = CHOOSE a \in PaymentAnswers : a.error = "none"
    /\ call.random_draws = 0 =>
          /\ prob_adopt = CHOOSE p \in ProbValues : \A q \in ProbValues : p <= q
          /\ u = CHOOSE v \in UniformValues : \A w \in UniformValues : v <= w
    /\ call.regr_calls = 0 =>
          adoption = CHOOSE f \in RegrOutputs : \A g \in RegrOutputs : RLe(f, g)

\* schedule.step(), first loop: the next agent's step()
MunicStep(m) ==
    /\ pc = "run"
    /\ year < InitialYear + MaxSteps
    /\ nadvanced = 0
    /\ nstepped < N
    /\ m = data.order[nstepped + 1]
    /\ \E census_row \in CensusRows, answer \in PaymentAnswers,
          prob_adopt \in ProbValues, u \in UniformValues, adoption \in RegrOutputs :
         LET res == step(m, munic[m], model, year, data.government, census_row,
                         model.environments[m], answer, prob_adopt, u, adoption)
         IN  /\ Consumed(res.call, census_row, answer, prob_adopt, u, adoption)
             /\ last' = res.call
             /\ drawn' = IF res.call.random_draws = 1 THEN Append(drawn, m) ELSE drawn
             /\ IF res.error = "none"
                THEN /\ munic' = [munic EXCEPT ![m] = SetAdoptionInYear(@, res.val)]
                     /\ nstepped' = nstepped + 1
                     /\ UNCHANGED <<pc, error>>
                ELSE /\ pc' = "aborted"
                     /\ error' = res.error
                     /\ UNCHANGED <<munic, nstepped>>
    /\ UNCHANGED <<data, year, model, nadvanced, year_start, payq, featq, nsteps>>

\* schedule.step(), second loop: the next agent's advance()
MunicAdvance(m) ==
    /\ pc = "run"
    /\ nstepped = N
    /\ nadvanced < N
    /\ m = data.order[nadvanced + 1]
    /\ LET after == advance(munic[m], year)
       IN  /\ munic' = [munic EXCEPT ![m] = after]
           /\ model' = AdvancePort(model, after, year)
    /\ nadvanced' = nadvanced + 1
    /\ UNCHANGED <<data, pc, year, nstepped, last, error, year_start, payq, featq,
                   drawn, nsteps>>

\* SBPAdoption.step after schedule.step(): lines 420-422
FinishStep ==
    /\ pc = "run"
    /\ nadvanced = N
    /\ model' = _update_adoption_port(model, year)
    /\ year' = year + 1
    /\ nstepped' = 0
    /\ nadvanced' = 0
    /\ last' = NoCall
    /\ year_start' = Committed(munic, model', year + 1)
    /\ drawn' = <<>>
    /\ nsteps' = nsteps + 1
    /\ UNCHANGED <<data, pc, munic, error, payq, featq>>

----------------------------------------------------------------------------
(* The runs *)

AreaValues == {R(0), R(1), R(2)}

HistFractions == {R(0), Rat(1, 2)}

Orders == {<<"m1", "m2">>, <<"m2", "m1">>}

DataYears == Years \cup {RefYear}

\* m1 ranges over every pastures series and seeded history; m2 is a plain
\* municipality with two hectares throughout and no earlier adoption
PasturesData ==
    {[m \in Munics |-> IF m = "m1" THEN s ELSE [y \in DataYears |-> R(2)]] :
        s \in [DataYears -> AreaValues]}

AdoptionData ==
    {[m \in Munics |-> IF m = "m1" THEN h ELSE [y \in HistYears |-> R(0)]] :
        h \in [HistYears -> HistFractions]}

\* sbp_payments.xlsx: an amount for every year up to last_year
PaymentsTable(last_year) == [y \in InitialYear..last_year |-> R(150)]

NoQuery == [year |-> 0, munic |-> "", answer |-> Raise("none")]

NoAssembly == [estimator |-> "", features |-> <<>>]

\* municipalities_average_climate_final.csv and municipalities_soil_final.csv
ClimateData == [m \in Munics |-> [av_d_mean_t_average |-> IF m = "m1" THEN R(12) ELSE R(13)]]

SoilData == [m \in Munics |-> [soil_property |-> IF m = "m1" THEN R(1) ELSE R(2)]]

Tables == {"census", "adoption", "climate", "soil"}

\* every municipality has its row in every table
AllRows == [t \in Tables |-> Munics]

\* The runs of Spec are given datasets without gaps; the start year is
\* InitialYear or the year before it.
Init ==
    /\ data \in [order : Orders, pastures : PasturesData, adoption : AdoptionData,
                 government : GovernmentClasses,
                 sbp_payments : {PaymentsTable(InitialYear + MaxSteps - 1)},
                 municipalities_pcf : {{"m1"}},
                 initial_year : {InitialYear - 1, InitialYear},
                 table_null : {{}}, rows : {AllRows},
                 climate : {ClimateData}, soil : {SoilData}]
    /\ pc = "new"
    /\ year = 0
    /\ munic = <<>>
    /\ model = <<>>
    /\ nstepped = 0
    /\ nadvanced = 0
    /\ last = NoCall
    /\ error = "none"
    /\ year_start = <<>>
    /\ payq = NoQuery
    /\ featq = NoAssembly
    /\ drawn = <<>>
    /\ nsteps = 0

Next ==
    \/ Construct
    \/ \E m \in Munics : MunicStep(m)
    \/ \E m \in Munics : MunicAdvance(m)
    \/ FinishStep

Spec == Init /\ [][Next]_vars

----------------------------------------------------------------------------
(* SBPAdoption.__init__ on datasets with gaps *)

\* the adoption table before the columns from the start year on are dropped
AdoptionColumns == FirstSeriesYear..InitialYear

\* Construction alone, for every start year around the first allowed one and
\* every way the municipalities table can hold nulls and the census, adoption,
\* climate and soil tables can lack rows.
InitLoad ==
    /\ data \in [order : Orders,
                 pastures : {[m \in Munics |-> [y \in DataYears |-> R(2)]]},
                 adoption : {[m \in Munics |-> [y \in AdoptionColumns |->
                                 IF m = "m1" THEN Rat(1, 2) ELSE Rat(1, 4)]]},
                 government : GovernmentClasses,
                 sbp_payments : {PaymentsTable(InitialYear + MaxSteps - 1)},
                 municipalities_pcf : {{"m1"}},
                 initial_year : (InitialYear - 1)..(InitialYear + 1),
                 table_null : SUBSET Munics,
                 rows : [Tables -> SUBSET Munics],
                 climate : {ClimateData}, soil : {SoilData}]
    /\ pc = "new"
    /\ year = 0
    /\ munic = <<>>
    /\ model = <<>>
    /\ nstepped = 0
    /\ nadvanced = 0
    /\ last = NoCall
    /\ error = "none"
    /\ year_start = <<>>
    /\ payq = NoQuery
    /\ featq = NoAssembly
    /\ drawn = <<>>
    /\ nsteps = 0

SpecLoad == InitLoad /\ [][Construct]_vars

----------------------------------------------------------------------------
(* Government.retrieve_payments on its own *)

QueryYears == (InitialYear - 1)..(InitialYear + MaxSteps)

QueryMunics == Munics \cup {"elsewhere"}

\* a Government built by Government.__init__ from a payments table (possibly
\* empty) and a set of municipalities
InitPayments ==
    /\ data \in [sbp_payments :
                    {PaymentsTable(l) : l \in (InitialYear - 1)..(InitialYear + MaxSteps - 1)},
                 municipalities_pcf : SUBSET Munics,
                 government : {"Government"}]
    /\ pc = "new"
    /\ year = 0
    /\ munic = <<>>
    /\ model = <<>>
    /\ nstepped = 0
    /\ nadvanced = 0
    /\ last = NoCall
    /\ error = "none"
    /\ year_start = <<>>
    /\ payq = NoQuery
    /\ featq = NoAssembly
    /\ drawn = <<>>
    /\ nsteps = 0

\* a call government.retrieve_payments(yr, m)
RetrievePayments(yr, m) ==
    /\ payq' = [year |-> yr, munic |-> m, answer |-> retrieve_payments(data, yr, m)]
    /\ UNCHANGED <<data, pc, year, munic, model, nstepped, nadvanced, last, error,
                   year_start, featq, drawn, nsteps>>

NextPayments == \E yr \in QueryYears, m \in QueryMunics : RetrievePayments(yr, m)

SpecPayments == InitPayments /\ [][NextPayments]_vars

----------------------------------------------------------------------------
(* Municipality._retrieve_data on its own *)

\* the feature lists a call may be given (features.csv of an estimator)
FeatureLists ==
    {ml_clsf_feats, ml_regr_feats,
     <<"soil_property", "farmers_over65">>,
     <<"av_d_mean_t_average", "sbp_payment", "tot_cumul_adoption_pr_y_port">>}

\* rows of the census, climate and soil tables: complete, with a NaN cell,
\* and with columns whose names other sources supply too
CensusRowsF ==
    {[farmers_over65 |-> R(1)], [farmers_over65 |-> NaN],
     [farmers_over65 |-> R(1), tot_cumul_adoption_pr_y_munic |-> R(7),
      sbp_payment |-> R(7)]}

ClimateRowsF ==
    {[av_d_mean_t_average |-> R(12)], [av_d_mean_t_average |-> NaN],
     [av_d_mean_t_average |-> R(12), farmers_over65 |-> R(8), sbp_payment |-> R(8)]}

SoilRowsF ==
    {[soil_property |-> R(1)], [soil_property |-> NaN],
     [soil_property |-> R(2), av_d_mean_t_average |-> R(9), sbp_payment |-> R(9)]}

\* one municipality of a constructed model, in a year after adoption began
InitFeatures ==
    /\ data \in [government : GovernmentClasses]
    /\ pc = "run"
    /\ year = InitialYear
    /\ munic = [m \in {"m1"} |-> [census_data |-> "dict", cumul_adoption_tot |-> Rat(1, 2)]]
    /\ model = [cumul_adoption_tot_port |-> Rat(1, 4)]
    /\ nstepped = 0
    /\ nadvanced = 0
    /\ last = NoCall
    /\ error = "none"
    /\ year_start = <<>>
    /\ payq = NoQuery
    /\ featq = NoAssembly
    /\ drawn = <<>>
    /\ nsteps = 0

\* a call munic._retrieve_data(features, year, estimator)
RetrieveData(features, estimator, census_row, climate, soil, answer) ==
    LET env == [average_climate |-> climate, soil |-> soil]
        pay == IF estimator = "regr" THEN PaymentCall(data.government, answer)
               ELSE Ok(NaN)
    IN  /\ featq' = [estimator |-> estimator, features |-> features,
                     census_row |-> census_row, env |-> env, pay |-> pay,
                     result |-> _retrieve_data(munic["m1"], model, features,
                                               estimator, census_row, env, pay)]
        /\ UNCHANGED <<data, pc, year, munic, model, nstepped, nadvanced, last,
                       error, year_start, payq, drawn, nsteps>>

NextFeatures ==
    \E features \in FeatureLists, estimator \in {"clsf", "regr"},
       census_row \in CensusRowsF, climate \in ClimateRowsF, soil \in SoilRowsF,
       answer \in PaymentAnswers :
        RetrieveData(features, estimator, census_row, climate, soil, answer)

SpecFeatures == InitFeatures /\ [][NextFeatures]_vars

----------------------------------------------------------------------------
(* Properties *)

Position(m) == CHOOSE i \in 1..N : data.order[i] = m

\* m's advance() of the current year has run
HasAdvanced(m) == Position(m) <= nadvanced

Area(m, y) == munic[m].perm_pastures_ha[y]

CumulHa(m) == munic[m].cumul_adoption_tot_ha

\* cumulative hectares of m when the current year began
StartHa(m) == year_start.munic[m].cumul_adoption_tot_ha

Staged(m) == munic[m].adoption_in_year

\* the step() call recorded in last drew u, passed the gate and got the
\* prediction last.adoption from the regressor
PassedWithPrediction ==
    /\ last.random_draws = 1
    /\ last.u < last.prob_adopt
    /\ last.adoption # NaN

\* C1 as stated: at construction and after the commit of every year, every
\* municipality's cumulative adopted hectares is at most its pastures area of
\* the current year.
C1_CapacityAlways ==
    (pc = "run" /\ year \in Years /\ (nstepped = 0 \/ nadvanced = N)) =>
        \A m \in Munics : RLe(CumulHa(m), Area(m, year))

\* C1 amended: the commit of a year never carries a municipality's cumulative
\* hectares past the year's pastures area: in year y the total is at most the
\* area of y, or it is still what it was when the year began.
C1_CapacityKept ==
    (pc = "run" /\ year \in Years) =>
        \A m \in Munics :
            RLe(CumulHa(m), Area(m, year)) \/ CumulHa(m) = StartHa(m)

C1_Witness ==
    /\ pc = "run"
    /\ nadvanced = N
    /\ \E m \in Munics :
          /\ last.munic = m
          /\ last.branch = "Clamped"
          /\ CumulHa(m) # StartHa(m)
          /\ CumulHa(m) = Area(m, year)

\* C2: every municipality's step() runs before any advance(); a step() call
\* changes no ledger, no field of another municipality, nothing of the model
\* and not the clock; and the municipal and national fractions in the
\* feature vectors it assembles are the ones committed when the year began.
C2_Inv ==
    pc \in {"run", "aborted"} =>
        /\ nadvanced > 0 => nstepped = N
        /\ \A f \in {last.clsf_frame, last.regr_frame} :
              f # NaN =>
                /\ f.val["tot_cumul_adoption_pr_y_munic"]
                      = year_start.munic[last.munic].cumul_adoption_tot
                /\ f.val["tot_cumul_adoption_pr_y_port"]
                      = year_start.model.cumul_adoption_tot_port

C2_Act ==
    (pc = "run" /\ (nstepped' = nstepped + 1 \/ pc' = "aborted")) =>
        /\ model' = model
        /\ year' = year
        /\ \A m \in Munics :
              /\ Ledger(munic'[m]) = Ledger(munic[m])
              /\ m # data.order[nstepped + 1] => munic'[m] = munic[m]

C2_TwoPhase == [](C2_Inv) /\ [][C2_Act]_vars

C2_Witness ==
    /\ pc = "run"
    /\ year > InitialYear
    /\ nstepped = N
    /\ nadvanced = 0
    /\ last.regr_frame # NaN
    /\ Staged(data.order[1]) # Zero
    /\ year_start.munic[last.munic].cumul_adoption_tot # Zero
    /\ year_start.model.cumul_adoption_tot_port # Zero

\* C3: when the gate is passed and the prediction f >= 0 is worth more
\* hectares than the year's area leaves free, the staged value is worth
\* exactly area - cumulative hectares, and once the municipality has advanced
\* the year's hectares are that difference and the cumulative hectares equal
\* the area.
C3_Clamp ==
    \A m \in Munics :
        (/\ pc = "run"
         /\ last.munic = m
         /\ PassedWithPrediction
         /\ ~RLt(last.adoption, Zero)
         /\ RLt(Area(m, year),
                RAdd(StartHa(m), RMul(last.adoption, munic[m].perm_pastures_ref))))
        =>
        /\ RMul(Staged(m), munic[m].perm_pastures_ref) = RSub(Area(m, year), StartHa(m))
        /\ HasAdvanced(m) =>
              /\ munic[m].yearly_adoption_ha[year] = RSub(Area(m, year), StartHa(m))
              /\ CumulHa(m) = Area(m, year)

C3_Witness ==
    \E m \in Munics :
        /\ pc = "run"
        /\ last.munic = m
        /\ PassedWithPrediction
        /\ RLt(Zero, StartHa(m))
        /\ RLt(StartHa(m), Area(m, year))
        /\ RLt(Area(m, year),
               RAdd(StartHa(m), RMul(last.adoption, munic[m].perm_pastures_ref)))
        /\ HasAdvanced(m)
        /\ CumulHa(m) = Area(m, year)

\* C4: the national cumulative hectares plus the year's total collected so
\* far equal the sum of the municipalities' cumulative hectares; the year's
\* total is zero until the first advance() of a year, so at construction and
\* after every completed step the national cumulative hectares are the sum.
C4_Aggregation ==
    pc = "run" =>
        /\ RAdd(model.cumul_adoption_tot_ha_port, model.adoption_in_year_port_ha)
              = SumOver([m \in Munics |-> CumulHa(m)], Munics)
        /\ nadvanced = 0 => model.adoption_in_year_port_ha = Zero

C4_Witness ==
    /\ pc = "run"
    /\ nstepped = 0
    /\ nadvanced = 0
    /\ year > InitialYear + 1
    /\ model.yearly_adoption_ha_port[year - 1] # Zero
    /\ model.yearly_adoption_ha_port[year - 2] # Zero
    /\ \A m \in Munics : munic[m].yearly_adoption_ha[year - 1] # Zero

\* C5: a municipality whose area of the year or of the year before is 0, or
\* whose cumulative hectares have reached the year's area, stages exactly 0
\* without assembling features, asking for the payment, calling the
\* classifier, drawing, or calling the regressor; its commit records 0.
C5_Blocked ==
    \A m \in Munics :
        (/\ pc = "run"
         /\ last.munic = m
         /\ \/ Area(m, year) = Zero
            \/ Area(m, year - 1) = Zero
            \/ RLe(Area(m, year), StartHa(m)))
        =>
        /\ Staged(m) = Zero
        /\ last.retrieve_calls = 0
        /\ last.payment_calls = 0
        /\ last.clsf_calls = 0
        /\ last.random_draws = 0
        /\ last.regr_calls = 0
        /\ HasAdvanced(m) => munic[m].yearly_adoption[year] = Zero

C5_Witness ==
    \E m \in Munics :
        /\ pc = "run"
        /\ last.munic = m
        /\ Area(m, year - 1) = Zero
        /\ RLt(StartHa(m), Area(m, year))
        /\ HasAdvanced(m)
        /\ munic[m].yearly_adoption[year] = Zero

\* C6: after the draw, u >= prob_adopt stages exactly 0 and the regressor is
\* not called; u < prob_adopt calls the regressor.
C6_Gate ==
    (pc = "run" /\ last.random_draws = 1) =>
        IF last.u >= last.prob_adopt
        THEN Staged(last.munic) = Zero /\ last.regr_calls = 0
        ELSE last.regr_calls = 1

C6_Witness ==
    /\ pc = "run"
    /\ last.random_draws = 1
    /\ last.u = last.prob_adopt
    /\ Staged(last.munic) = Zero

\* C7: a negative prediction stages exactly 0 whenever the gate was passed.
C7_Negative ==
    (pc = "run" /\ PassedWithPrediction /\ RLt(last.adoption, Zero)) =>
        Staged(last.munic) = Zero

C7_Witness ==
    /\ pc = "run"
    /\ PassedWithPrediction
    /\ RLt(last.adoption, Zero)
    /\ RLt(Zero, munic[last.munic].perm_pastures_ref)
    /\ RLt(Zero, StartHa(last.munic))
    /\ Staged(last.munic) = Zero

\* C8: a step that a municipality's step() ends with an exception leaves every
\* ledger, the model's adoption fields and the clock as they were when the
\* year began; a step that ends normally has given every municipality and the
\* model an entry for the year.
C8_Atomic ==
    /\ pc = "aborted" =>
          /\ year = year_start.year
          /\ model = year_start.model
          /\ \A m \in Munics : Ledger(munic[m]) = year_start.munic[m]
    /\ (pc = "run" /\ nstepped = 0 /\ nadvanced = 0 /\ year > InitialYear) =>
          /\ year - 1 \in DOMAIN model.yearly_adoption_ha_port
          /\ \A m \in Munics :
                /\ year - 1 \in DOMAIN munic[m].yearly_adoption
                /\ year - 1 \in DOMAIN munic[m].yearly_adoption_ha

C8_Witness ==
    /\ pc = "aborted"
    /\ error \in {"ValueError", "KeyError"}
    /\ year > InitialYear
    /\ nstepped = 1
    /\ Staged(data.order[1]) # Zero

\* C9: retrieve_payments(year, munic) answers 0 for a municipality outside
\* municipalities_pcf, whatever the year; for a member it answers the table's
\* amount of the year, and raises KeyError ("Payment for ... not available")
\* when the table has no such year.
C9_Payment ==
    payq.munic # "" =>
        IF payq.munic \notin data.municipalities_pcf
        THEN payq.answer = Ok(Zero)
        ELSE IF payq.year \in DOMAIN data.sbp_payments
             THEN payq.answer = Ok(data.sbp_payments[payq.year])
             ELSE payq.answer = Raise("KeyError")

C9_Witness ==
    /\ payq.munic # ""
    /\ payq.munic \notin data.municipalities_pcf
    /\ payq.year \notin DOMAIN data.sbp_payments
    /\ data.municipalities_pcf # {}
    /\ data.sbp_payments # <<>>
    /\ payq.answer = Ok(Zero)

\* C10 as stated: with the Government of agents/government.py the model is
\* constructed, a step's payment call raises nothing but KeyError, and the
\* payment entry of every regression vector is retrieve_payments' answer for
\* the year and the stepping municipality.
C10_PaymentFeature ==
    data.government = "Government" =>
        /\ pc # "construct_failed"
        /\ error # "TypeError"
        /\ last.regr_frame # NaN =>
              last.regr_frame.val["sbp_payment"]
                 = retrieve_payments(data, year, last.munic).value

\* C13: at construction, after every advance() and after every step, every
\* municipality's cumulative hectares are its reference area times its
\* cumulative fraction.
C13_Consistent ==
    pc \in {"run", "aborted"} =>
        \A m \in Munics :
            CumulHa(m) = RMul(munic[m].perm_pastures_ref, munic[m].cumul_adoption_tot)

C13_Witness ==
    \E m \in Munics :
        /\ pc = "run"
        /\ year > InitialYear
        /\ last.munic = m
        /\ last.branch = "Clamped"
        /\ HasAdvanced(m)
        /\ munic[m].yearly_adoption[year - 1] = Zero
        /\ munic[m].perm_pastures_ref \notin {Zero, R(1)}
        /\ RLt(Zero, StartHa(m))
        /\ CumulHa(m) = RMul(munic[m].perm_pastures_ref, munic[m].cumul_adoption_tot)

\* cumulative fraction of m when the current year began
StartTot(m) == year_start.munic[m].cumul_adoption_tot

\* C14: every staged value is >= 0, and > 0 when it was clamped; within a
\* year a municipality's cumulative fraction and hectares are what they were
\* when the year began until its advance() and that plus the staged value
\* after it, and the national cumulative hectares stay what they were until
\* the step ends, when the year's hectares are added; no total ever
\* decreases.
C14_Inv ==
    pc \in {"run", "aborted"} =>
        /\ \A m \in Munics :
              /\ Staged(m) # NaN => RLe(Zero, Staged(m))
              /\ (last.munic = m /\ last.branch = "Clamped") => RLt(Zero, Staged(m))
              /\ munic[m].cumul_adoption_tot =
                    IF HasAdvanced(m) THEN RAdd(StartTot(m), Staged(m)) ELSE StartTot(m)
              /\ CumulHa(m) =
                    IF HasAdvanced(m)
                    THEN RAdd(StartHa(m), RMul(Staged(m), munic[m].perm_pastures_ref))
                    ELSE StartHa(m)
        /\ model.cumul_adoption_tot_ha_port = year_start.model.cumul_adoption_tot_ha_port

C14_Act ==
    (pc = "run" /\ pc' \in {"run", "aborted"}) =>
        /\ \A m \in Munics :
              /\ RLe(munic[m].cumul_adoption_tot, munic'[m].cumul_adoption_tot)
              /\ RLe(munic[m].cumul_adoption_tot_ha, munic'[m].cumul_adoption_tot_ha)
        /\ RLe(model.cumul_adoption_tot_ha_port, model'.cumul_adoption_tot_ha_port)
        /\ nsteps' = nsteps + 1 =>
              model'.cumul_adoption_tot_ha_port =
                  RAdd(model.cumul_adoption_tot_ha_port,
                       SumOver([m \in Munics |-> munic[m].yearly_adoption_ha[year]],
                               Munics))

C14_Monotone == [](C14_Inv) /\ [][C14_Act]_vars

C14_Witness ==
    \E m \in Munics :
        /\ pc = "run"
        /\ year > InitialYear
        /\ nadvanced = N
        /\ last.munic = m
        /\ last.branch = "Clamped"
        /\ RLt(Zero, munic[m].yearly_adoption[year - 1])
        /\ RLt(StartTot(m), munic[m].cumul_adoption_tot)
        /\ RLt(Zero, model.adoption_in_year_port_ha)

\* the years the yearly series hold when the clock shows yr
SeriesYears(yr) == FirstSeriesYear..(yr - 1)

\* C15: construction with a start year below 1996 ends with ValueError and
\* leaves no model; otherwise the clock shows the start year plus the number
\* of completed steps, it moves only at the end of a step, after every
\* advance(), and by one, and the national series and every municipality's
\* two series hold one entry for each simulated year (besides the seeded
\* years), the year in progress being added by the municipality's advance().
C15_Inv ==
    /\ (pc # "new" /\ data.initial_year < FirstAllowedYear) =>
          /\ pc = "construct_failed"
          /\ error = "ValueError"
          /\ year = 0 /\ munic = <<>> /\ model = <<>>
    /\ pc \in {"run", "aborted"} =>
          /\ data.initial_year >= FirstAllowedYear
          /\ year = data.initial_year + nsteps
          /\ DOMAIN model.yearly_adoption_ha_port = SeriesYears(year)
          /\ \A m \in Munics :
                LET done == SeriesYears(year)
                                \cup (IF HasAdvanced(m) THEN {year} ELSE {})
                IN  /\ DOMAIN munic[m].yearly_adoption = done
                    /\ DOMAIN munic[m].yearly_adoption_ha = done

C15_Act ==
    (pc = "run" /\ (year' # year \/ nsteps' # nsteps)) =>
        /\ year' = year + 1
        /\ nsteps' = nsteps + 1
        /\ nadvanced = N
        /\ munic' = munic

C15_Clock == [](C15_Inv) /\ [][C15_Act]_vars

C15_Witness ==
    /\ pc = "run"
    /\ nsteps = MaxSteps
    /\ year = data.initial_year + MaxSteps
    /\ \A m \in Munics :
          \A y \in data.initial_year..(year - 1) : y \in DOMAIN munic[m].yearly_adoption
    /\ \E m \in Munics : RLt(Zero, munic[m].yearly_adoption[year - 1])

\* the municipalities as they were before the advance() calls of the year:
\* the staged values of now on the ledgers of the start of the year
BeforeCommit ==
    [m \in Munics |->
        [munic[m] EXCEPT
            !.yearly_adoption = year_start.munic[m].yearly_adoption,
            !.yearly_adoption_ha = year_start.munic[m].yearly_adoption_ha,
            !.cumul_adoption_tot = year_start.munic[m].cumul_adoption_tot,
            !.cumul_adoption_tot_ha = year_start.munic[m].cumul_adoption_tot_ha]]

\* C16: once every municipality has advanced, the municipalities and the
\* model's year total are what the advance() calls give from the staged
\* values in any order of the municipalities, and so are the national
\* yearly entry, cumulative hectares and fraction that _update_adoption_port
\* derives from them.
C16_OrderFree ==
    (pc = "run" /\ nadvanced = N) =>
        \A o \in Orders :
            LET c == CommitAll(o, BeforeCommit, year_start.model, year)
            IN  /\ c.munic = munic
                /\ c.model = model
                /\ _update_adoption_port(c.model, year)
                      = _update_adoption_port(model, year)

C16_Witness ==
    /\ pc = "run"
    /\ nadvanced = N
    /\ \A m \in Munics : RLt(Zero, munic[m].yearly_adoption_ha[year])
    /\ \E m1, m2 \in Munics :
          munic[m1].yearly_adoption_ha[year] # munic[m2].yearly_adoption_ha[year]
    /\ last.branch = "Clamped"
    /\ RLt(Zero, year_start.model.cumul_adoption_tot_ha_port)

\* C17 as stated: the regression vector is assembled and the payment asked
\* for only after a draw with u < prob_adopt, so a draw with u >= prob_adopt
\* ends in NotAdopted whatever the regression sources hold.
C17_RegrAfterGate ==
    (pc \in {"run", "aborted"} /\ last.payment_calls = 1) =>
        /\ last.random_draws = 1
        /\ last.u < last.prob_adopt

\* C17 amended: a step() that is not Blocked assembles both vectors, asking
\* for the payment, before the classifier is called and the value drawn; a
\* failed assembly ends the step with no draw; after the draw u >= prob_adopt
\* stages 0 (NotAdopted) without a call of the regressor, and the regressor
\* is called only when u < prob_adopt.
C17_AssembleFirst ==
    (pc \in {"run", "aborted"} /\ last.munic # "") =>
        /\ last.random_draws = 1 =>
              /\ last.retrieve_calls = 2
              /\ last.payment_calls = 1
              /\ last.clsf_calls = 1
              /\ last.clsf_frame # NaN
              /\ last.regr_frame # NaN
        /\ last.branch = "Error" =>
              /\ pc = "aborted"
              /\ last.clsf_calls = 0
              /\ last.random_draws = 0
              /\ last.regr_calls = 0
        /\ (last.random_draws = 1 /\ last.u >= last.prob_adopt) =>
              /\ last.branch = "NotAdopted"
              /\ Staged(last.munic) = Zero
              /\ last.regr_calls = 0
        /\ last.regr_calls = 1 => (last.random_draws = 1 /\ last.u < last.prob_adopt)

C17_Witness ==
    /\ pc = "aborted"
    /\ error = "KeyError"
    /\ last.branch = "Error"
    /\ last.retrieve_calls = 2
    /\ last.payment_calls = 1
    /\ last.clsf_frame # NaN
    /\ last.random_draws = 0

\* m is Blocked in the current year, by the ledgers of the start of the year
BlockedAtStart(m) ==
    \/ Area(m, year) = Zero
    \/ Area(m, year - 1) = Zero
    \/ RLe(Area(m, year), StartHa(m))

\* the municipalities among the first k of the schedule that are not Blocked
Evaluating(k) ==
    SelectSeq(SubSeq(data.order, 1, k), LAMBDA m : ~BlockedAtStart(m))

\* C19: in every year the municipalities that have drawn from the random
\* source are the municipalities whose step() has returned and that were
\* not Blocked, once each and in the order of the schedule; a step() call
\* draws at most once, and not at all when the municipality is Blocked or
\* the call ends with an exception.
C19_Draws ==
    (pc \in {"run", "aborted"} /\ year \in Years) =>
        /\ drawn = Evaluating(nstepped)
        /\ last.random_draws \in {0, 1}
        /\ last.branch \in {"Blocked", "Error"} => last.random_draws = 0

C19_Witness ==
    /\ pc = "run"
    /\ year > InitialYear
    /\ nstepped = N
    /\ BlockedAtStart(data.order[1])
    /\ drawn = <<data.order[2]>>
    /\ Staged(data.order[2]) # Zero

\* C20: the branch that divides by the reference area is taken only by a
\* municipality whose reference area is not 0; a municipality with reference
\* area 0 that passes the gate with a prediction >= 0 stages the prediction
\* as it is, which is worth 0 hectares, so its commit leaves the cumulative
\* hectares where they were, within the year's area; and no step() that
\* returns leaves a staged value that is not a number.
C20_ClampDefined ==
    (pc = "run" /\ last.munic # "") =>
        LET m   == last.munic
            ref == munic[m].perm_pastures_ref
        IN  /\ last.branch = "Clamped" => ref # Zero
            /\ Staged(m) # NaN
            /\ (ref = Zero /\ PassedWithPrediction /\ ~RLt(last.adoption, Zero)) =>
                  /\ last.branch = "Unclamped"
                  /\ Staged(m) = last.adoption
                  /\ RMul(Staged(m), ref) = Zero
                  /\ HasAdvanced(m) =>
                        /\ munic[m].yearly_adoption_ha[year] = Zero
                        /\ CumulHa(m) = StartHa(m)
                        /\ RLe(CumulHa(m), Area(m, year))

C20_Witness ==
    \E m \in Munics :
        /\ pc = "run"
        /\ last.munic = m
        /\ munic[m].perm_pastures_ref = Zero
        /\ RLt(Zero, Area(m, year))
        /\ RLt(Zero, munic[m].cumul_adoption_tot)
        /\ PassedWithPrediction
        /\ RLt(Zero, last.adoption)
        /\ last.branch = "Unclamped"
        /\ HasAdvanced(m)
        /\ CumulHa(m) = Zero

----------------------------------------------------------------------------
(* Properties of _retrieve_data (SpecFeatures) *)

\* the sources of the recorded call that hold a value (not NaN) under name n
SuppliedBy(n) ==
    {src \in {"munic", "port", "census", "payment", "climate", "soil"} :
        \/ src = "munic" /\ n = "tot_cumul_adoption_pr_y_munic"
        \/ src = "port" /\ n = "tot_cumul_adoption_pr_y_port"
        \/ src = "census" /\ n \in DOMAIN featq.census_row
                          /\ featq.census_row[n] # NaN
        \/ src = "payment" /\ n = "sbp_payment" /\ featq.estimator = "regr"
                           /\ featq.pay.value # NaN
        \/ src = "climate" /\ n \in DOMAIN featq.env.average_climate
                           /\ featq.env.average_climate[n] # NaN
        \/ src = "soil" /\ n \in DOMAIN featq.env.soil /\ featq.env.soil[n] # NaN}

\* the requested names no source holds a value for
Unsupplied == {n \in Range(featq.features) : SuppliedBy(n) = {}}

\* every source was read: the payment call, if there was one, returned
MergeCompleted == featq.estimator = "clsf" \/ featq.pay.error = "none"

\* C11: a call of _retrieve_data whose sources were all read raises the
\* missing-attributes ValueError exactly when some requested name has no
\* value, and the error then names, without repetition, exactly the requested
\* names that have no value; a call that a source ended with its own exception
\* does not raise it.
C11_Missing ==
    featq.estimator # "" =>
        IF MergeCompleted
        THEN /\ (featq.result.error = "ValueError") <=> (Unsupplied # {})
             /\ featq.result.error = "ValueError" =>
                   /\ Range(featq.result.missing) = Unsupplied
                   /\ Len(featq.result.missing) = Cardinality(Unsupplied)
             /\ featq.result.error \in {"ValueError", "none"}
        ELSE featq.result.error = featq.pay.error

C11_Witness ==
    /\ featq.estimator = "regr"
    /\ MergeCompleted
    /\ featq.result.error = "ValueError"
    /\ Cardinality(Unsupplied) = 2
    /\ Range(featq.result.missing) = Unsupplied
    /\ Cardinality(Range(featq.features)) > 2

----------------------------------------------------------------------------
(* Properties of construction (SpecLoad) *)

\* the municipalities the datasets lack a required value for
Affected ==
    data.table_null \cup {m \in Munics : \E t \in Tables : m \notin data.rows[t]}

\* C12 as stated: when the municipalities table holds a null or a
\* municipality lacks its census, adoption, climate or soil row, construction
\* (with an allowed start year and a government that could be built) fails,
\* whatever the exception, and no municipality is initialised.
C12_LoadIntegrity ==
    (/\ pc # "new"
     /\ data.initial_year >= FirstAllowedYear
     /\ _initialize_government(data.government).error = "none"
     /\ Affected # {})
    =>
    /\ pc = "construct_failed"
    /\ munic = <<>>

\* the value the source src of the recorded call holds under name n
ValueFrom(src, n) ==
    CASE src = "munic"   -> munic["m1"].cumul_adoption_tot
      [] src = "port"    -> model.cumul_adoption_tot_port
      [] src = "census"  -> featq.census_row[n]
      [] src = "payment" -> featq.pay.value
      [] src = "climate" -> featq.env.average_climate[n]
      [] src = "soil"    -> featq.env.soil[n]

\* the documented order of the sources; a later source overrides an earlier
SourceOrder == <<"port", "munic", "census", "payment", "climate", "soil">>

\* the value of n after the merge: that of the last source, in the
\* documented order, that holds one
Merged(n) ==
    LET at == {i \in DOMAIN SourceOrder : SourceOrder[i] \in SuppliedBy(n)}
        k  == CHOOSE i \in at : \A j \in at : j <= i
    IN  ValueFrom(SourceOrder[k], n)

\* under every requested name the returned vector holds the value the
\* documented order of the sources gives it
ValuesFollowSourceOrder ==
    \A n \in Range(featq.features) : featq.result.frame.val[n] = Merged(n)

\* C18 as stated: the vector a call of _retrieve_data returns holds exactly
\* the requested names, in the requested order, and under each name the value
\* the documented order of the sources gives it.
C18_Shape ==
    (featq.estimator # "" /\ featq.result.error = "none") =>
        /\ featq.result.frame.index = featq.features
        /\ DOMAIN featq.result.frame.val = Range(featq.features)
        /\ ValuesFollowSourceOrder

====
